---- MODULE Spec2Model ----
(***************************************************************************)
(* Desktop Widgets (src/main.py): the DataManager document store and the   *)
(* PomodoroWidget timer, modelled as a state machine.                      *)
(*                                                                         *)
(* The process is single threaded (the Tk main loop): every handler runs   *)
(* to completion, so each handler is one action.  Time is counted in ticks *)
(* of one second, the delay of self.after(1000, self.run_timer).           *)
(***************************************************************************)
EXTENDS Integers, Sequences, FiniteSets, TLC

VARIABLES
    app,                 \* "down" | "up": whether ControlPanel() is constructed
    file,                \* content of ~/.desktop_widgets/widget_data.json
    data,                \* DataManager.data (a JSON value)
    timer_running,       \* PomodoroWidget.timer_running
    is_focus_time,       \* PomodoroWidget.is_focus_time
    remaining_seconds,   \* PomodoroWidget.remaining_seconds
    sessions_completed,  \* PomodoroWidget.sessions_completed
    settings,            \* PomodoroWidget.focus_time, break_time, long_break_time,
                         \* sessions_before_long_break (one record)
    is_expanded,         \* BaseWidget.is_expanded of the pomodoro panel
    pending,             \* scheduled run_timer callbacks: seconds until due, oldest first
    today,               \* the day datetime.now() falls on (a day number)
    last,                \* the handler that ran last, its input and what it raised
    clock                \* a stopwatch beside the panel: the seconds passed since the
                         \* last Start and what the countdown showed then

vars == <<app, file, data, timer_running, is_focus_time, remaining_seconds,
          sessions_completed, settings, is_expanded, pending, today, last, clock>>

timerVars == <<timer_running, is_focus_time, remaining_seconds, sessions_completed,
               settings, is_expanded, pending>>

-----------------------------------------------------------------------------
(* Bounds of the model *)

MaxCycle == 4        \* largest sessions_before_long_break stored on disk
MaxPending == 2      \* scheduled run_timer callbacks outstanding at once
MaxSessions == 4     \* focus sessions recorded in pomodoro_history
MaxDay == 1          \* days that pass while the model runs
MaxMissing == 1      \* keys missing from an on-disk object
MaxLate == 1         \* seconds the callbacks of one countdown come late in all
MaxEvents == 2       \* events the calendar holds for one date

-----------------------------------------------------------------------------
(* JSON values and the canonical document *)

EmptyDict == [k \in {} |-> TRUE]

WidgetNames ==
    {"calendar", "todo", "day_planner", "weekly_planner", "monthly_planner", "pomodoro"}

default_data ==
    [ widget_positions |-> EmptyDict,
      widget_colors |-> [ calendar |-> "#E3F2FD", todo |-> "#F3E5F5",
                          day_planner |-> "#E8F5E9", weekly_planner |-> "#FFF3E0",
                          monthly_planner |-> "#FCE4EC", pomodoro |-> "#E0F7FA" ],
      widget_sizes |-> [w \in WidgetNames |-> "compact"],
      widget_visible |-> [w \in WidgetNames |-> TRUE],
      calendar_events |-> EmptyDict,
      todo_items |-> <<>>,
      day_plans |-> EmptyDict,
      weekly_plans |-> EmptyDict,
      monthly_plans |-> EmptyDict,
      pomodoro_settings |-> [ focus_time |-> 25, break_time |-> 5,
                              long_break_time |-> 15,
                              sessions_before_long_break |-> 4 ],
      pomodoro_history |-> EmptyDict,
      autostart |-> TRUE ]

CanonicalKeys == DOMAIN default_data

ExtraKey == "theme"

Restrict(f, S) == [k \in S |-> f[k]]

\* A JSON value as json.load returns it / json.dump writes it.
JsonObject(d) == [kind |-> "object", doc |-> d]
JsonArray(s) == [kind |-> "array", items |-> s]
JsonString(s) == [kind |-> "string", has |-> s]
JsonNumber == [kind |-> "number"]
JsonNull == [kind |-> "null"]

\* What the file can hold: nothing, text json.load rejects, or JSON text.
Absent == [kind |-> "absent"]
Garbage == [kind |-> "garbage"]
JsonText(v) == [kind |-> "json", value |-> v]

NoData == [kind |-> "none"]          \* no DataManager exists (the process is not running)

-----------------------------------------------------------------------------
(* DataManager *)

\* `key in saved_data` for a list (an element) or a str (a substring).
KeyIn(key, v) == IF v.kind = "array" THEN key \in v.items ELSE key \in v.has

\* The loop of load_data over default_data: whether it raises.  `key not in saved_data`
\* raises TypeError for a number or null; `saved_data[key] = ...` raises TypeError for a
\* list or a str, and is reached for the first canonical key the value does not contain.
MergeRaises(v) ==
    \/ v.kind \in {"number", "null"}
    \/ /\ v.kind \in {"array", "string"}
       /\ \E key \in CanonicalKeys : ~KeyIn(key, v)

\* (mutant) keys that default_data does not have are dropped
MergeDefaultsKnownOnly(v) ==
    IF v.kind = "object"
    THEN JsonObject([k \in CanonicalKeys |->
                        IF k \in DOMAIN v.doc THEN v.doc[k] ELSE default_data[k]])
    ELSE v

\* (mutant) the defaults win over the values of the file, as saved_data.update(default_data)
MergeDefaultsOverwriting(v) ==
    IF v.kind = "object"
    THEN JsonObject([k \in DOMAIN v.doc \cup CanonicalKeys |->
                        IF k \in CanonicalKeys THEN default_data[k] ELSE v.doc[k]])
    ELSE v

\* The for loop of load_data when nothing raises: a missing canonical key gets its
\* default, a key of the file keeps its value.
MergeDefaults(v) ==
    IF v.kind = "object"
    THEN JsonObject([k \in DOMAIN v.doc \cup CanonicalKeys |->
                        IF k \in DOMAIN v.doc THEN v.doc[k] ELSE default_data[k]])
    ELSE v

\* self.data at the end of load_data, for the file content f.
LoadedData(f) ==
    IF f.kind = "absent" THEN JsonObject(default_data)        \* not exists()
    ELSE IF f.kind = "garbage" THEN JsonObject(default_data)  \* json.load raises
    ELSE IF MergeRaises(f.value) THEN JsonObject(default_data)
    ELSE MergeDefaults(f.value)

\* json.dump(self.data, f) into the file opened with 'w'.
DumpTruncated(d) == Garbage

Dump(d) == JsonText(d)

\* self.data after self.data[key] = value.
SetItem(d, key, value) ==
    JsonObject([k \in DOMAIN d.doc \cup {key} |-> IF k = key THEN value ELSE d.doc[k]])

\* self.data.get(key, default)
Get(key, default) == IF key \in DOMAIN data.doc THEN data.doc[key] ELSE default

DictGet(d, key, default) == IF key \in DOMAIN d THEN d[key] ELSE default

\* (mutant) the map is written back with the one entry only
DictSetAlone(d, key, value) == [k \in {key} |-> value]

DictSet(d, key, value) == [k \in DOMAIN d \cup {key} |-> IF k = key THEN value ELSE d[k]]

\* del d[key]
DictDel(d, key) == [k \in DOMAIN d \ {key} |-> d[k]]

\* del items[index] of a list (index counted from 1)
ListDel(items, index) ==
    [i \in 1..(Len(items) - 1) |-> IF i < index THEN items[i] ELSE items[i + 1]]

\* str.strip() of the texts an entry may hold
strip(text) ==
    CASE text = "  " -> ""
      [] text = " gym " -> "gym"
      [] OTHER -> text

-----------------------------------------------------------------------------
(* The calendar and the planners *)

\* calendar_events after add_event with event_entry holding text, date_key selected
add_event(events, date_key, text) ==
    IF strip(text) # ""
    THEN DictSet(events, date_key, Append(DictGet(events, date_key, <<>>), strip(text)))
    ELSE events

\* calendar_events after delete_event with the list entry at index selected
delete_event(events, date_key, index) ==
    IF date_key \in DOMAIN events
    THEN LET rest == ListDel(events[date_key], index)
         IN IF rest = <<>> THEN DictDel(events, date_key)
            ELSE DictSet(events, date_key, rest)
    ELSE events

\* day_plans after save_plan (weekly_plans after save_week_plan, monthly_plans after
\* save_goals: the same statements) for the entry of slot holding text
save_plan(plans, key, slot, text) ==
    LET keyed == IF key \in DOMAIN plans THEN plans ELSE DictSet(plans, key, EmptyDict)
    IN IF strip(text) # ""
       THEN DictSet(keyed, key, DictSet(keyed[key], slot, strip(text)))
       ELSE IF slot \in DOMAIN keyed[key]
       THEN DictSet(keyed, key, DictDel(keyed[key], slot))
       ELSE keyed

-----------------------------------------------------------------------------
(* BaseWidget: what a panel reads from the store when it is constructed *)

\* positions.get(name, None), and "+100+100" when there is none
PanelPosition(name) ==
    DictGet(Get("widget_positions", EmptyDict), name, [x |-> 100, y |-> 100])

\* colors.get(name, '#E3F2FD')
PanelColor(name) == DictGet(Get("widget_colors", EmptyDict), name, "#E3F2FD")

\* sizes.get(name, 'compact')
PanelSize(name) == DictGet(Get("widget_sizes", EmptyDict), name, "compact")

\* visible.get(widget_id, True) in create_widgets
PanelVisible(name) == DictGet(Get("widget_visible", EmptyDict), name, TRUE)

-----------------------------------------------------------------------------
(* PomodoroWidget *)

NoSettings ==
    [focus_time |-> 0, break_time |-> 0, long_break_time |-> 0,
     sessions_before_long_break |-> 0]

SettingsFields == DOMAIN NoSettings

SecondsPerMinute == 60

TickDelay == 1       \* self.after(1000, ...), in seconds

\* strftime('%Y-%m-%d') of day number d: day 0 is Sunday 2024-01-07, day 1 the Monday
\* after it, day -7 is Sunday 2023-12-31.
strftime(d) ==
    LET n == d + 7
    IN IF n < 1 THEN "2023-12-" \o ToString(31 + n)
       ELSE IF n < 10 THEN "2024-01-0" \o ToString(n)
       ELSE "2024-01-" \o ToString(n)

\* datetime.weekday() of day number d: Monday is 0, Sunday is 6.
weekday(d) == (d + 6) % 7

\* The text of a spinbox, and int() of it.
IntText(n) == [kind |-> "int", val |-> n]
FloatText == [kind |-> "float", val |-> 0]      \* such as "2.5"
WordText == [kind |-> "word", val |-> 0]        \* such as "abc", or the empty text

IntRaises(text) == text.kind # "int"

IntOf(text) == text.val

TotalSessions(history) ==
    LET RECURSIVE Sum(_)
        Sum(S) == IF S = {} THEN 0
                  ELSE LET k == CHOOSE k \in S : TRUE
                       IN history[k].sessions + Sum(S \ {k})
    IN Sum(DOMAIN history)

\* (mutant) today's bucket is written anew at every session
RecordedHistoryAnew(history, day, minutes) ==
    DictSet(history, day, [sessions |-> 1, focus_minutes |-> minutes])

\* record_session: today's bucket, created with zeros if absent, gets one more session
\* and focus_time more minutes; the history is written through.
RecordedHistory(history, day, minutes) ==
    LET bucket == DictGet(history, day, [sessions |-> 0, focus_minutes |-> 0])
    IN DictSet(history, day, [sessions |-> bucket.sessions + 1,
                              focus_minutes |-> bucket.focus_minutes + minutes])

History == Get("pomodoro_history", EmptyDict)

\* (mutant) the week is taken from the day before week_start
get_week_stats_early(history, day) ==
    LET week_start == day - weekday(day) - 1
        RECURSIVE Loop(_, _, _)
        Loop(i, total_sessions, total_minutes) ==
            IF i = 7 THEN [sessions |-> total_sessions, minutes |-> total_minutes]
            ELSE LET day_key == strftime(week_start + i)
                 IN IF day_key \in DOMAIN history
                    THEN Loop(i + 1, total_sessions + history[day_key].sessions,
                              total_minutes + history[day_key].focus_minutes)
                    ELSE Loop(i + 1, total_sessions, total_minutes)
    IN Loop(0, 0, 0)

\* get_week_stats with datetime.now() on day number day: the loop over the seven days
\* from week_start.
get_week_stats(history, day) ==
    LET week_start == day - weekday(day)
        RECURSIVE Loop(_, _, _)
        Loop(i, total_sessions, total_minutes) ==
            IF i = 7 THEN [sessions |-> total_sessions, minutes |-> total_minutes]
            ELSE LET day_key == strftime(week_start + i)
                 IN IF day_key \in DOMAIN history
                    THEN Loop(i + 1, total_sessions + history[day_key].sessions,
                              total_minutes + history[day_key].focus_minutes)
                    ELSE Loop(i + 1, total_sessions, total_minutes)
    IN Loop(0, 0, 0)

\* The session state of the panel, with the history its completions write.
SessionState ==
    [timer_running |-> timer_running, is_focus_time |-> is_focus_time,
     remaining_seconds |-> remaining_seconds, sessions_completed |-> sessions_completed,
     history |-> History]

\* (mutant) the long break starts one session late: > for >=
CompleteOutcomeLate ==
    IF is_focus_time
    THEN LET counted == sessions_completed + 1
             long == counted > settings.sessions_before_long_break
         IN [timer_running |-> FALSE,
             is_focus_time |-> FALSE,
             remaining_seconds |->
                 IF long THEN settings.long_break_time * SecondsPerMinute
                 ELSE settings.break_time * SecondsPerMinute,
             sessions_completed |-> IF long THEN 0 ELSE counted,
             history |-> RecordedHistory(History, strftime(today), settings.focus_time)]
    ELSE [timer_running |-> FALSE,
          is_focus_time |-> TRUE,
          remaining_seconds |-> settings.focus_time * SecondsPerMinute,
          sessions_completed |-> sessions_completed,
          history |-> History]

\* (mutant) the end of a break is counted as a session of the cycle
CompleteOutcomeCounting ==
    IF is_focus_time
    THEN LET counted == sessions_completed + 1
             long == counted >= settings.sessions_before_long_break
         IN [timer_running |-> FALSE,
             is_focus_time |-> FALSE,
             remaining_seconds |->
                 IF long THEN settings.long_break_time * SecondsPerMinute
                 ELSE settings.break_time * SecondsPerMinute,
             sessions_completed |-> IF long THEN 0 ELSE counted,
             history |-> RecordedHistory(History, strftime(today), settings.focus_time)]
    ELSE [timer_running |-> FALSE,
          is_focus_time |-> TRUE,
          remaining_seconds |-> settings.focus_time * SecondsPerMinute,
          sessions_completed |-> sessions_completed + 1,
          history |-> History]

\* timer_complete from the current state: the session state it leaves.  After a focus
\* period the session is counted and recorded (record_session) before the break is
\* chosen; after a break the next period is a focus period.
CompleteOutcome ==
    IF is_focus_time
    THEN LET counted == sessions_completed + 1
             long == counted >= settings.sessions_before_long_break
         IN [timer_running |-> FALSE,
             is_focus_time |-> FALSE,
             remaining_seconds |->
                 IF long THEN settings.long_break_time * SecondsPerMinute
                 ELSE settings.break_time * SecondsPerMinute,
             sessions_completed |-> IF long THEN 0 ELSE counted,
             history |-> RecordedHistory(History, strftime(today), settings.focus_time)]
    ELSE [timer_running |-> FALSE,
          is_focus_time |-> TRUE,
          remaining_seconds |-> settings.focus_time * SecondsPerMinute,
          sessions_completed |-> sessions_completed,
          history |-> History]

\* (mutant) Skip moves on to the next period and records nothing
SkipOutcomeUnrecorded ==
    IF is_focus_time
    THEN [timer_running |-> FALSE,
          is_focus_time |-> FALSE,
          remaining_seconds |-> settings.break_time * SecondsPerMinute,
          sessions_completed |-> sessions_completed,
          history |-> History]
    ELSE [timer_running |-> FALSE,
          is_focus_time |-> TRUE,
          remaining_seconds |-> settings.focus_time * SecondsPerMinute,
          sessions_completed |-> sessions_completed,
          history |-> History]

\* skip_session: timer_running = False, then timer_complete().
SkipOutcome == CompleteOutcome

\* The assignments of a completion with outcome o; record_session writes the history
\* through DataManager.set.  The modal messagebox comes last, after every assignment,
\* so the handler is atomic for the state.
Completed(o) ==
    /\ timer_running' = o.timer_running
    /\ is_focus_time' = o.is_focus_time
    /\ remaining_seconds' = o.remaining_seconds
    /\ sessions_completed' = o.sessions_completed
    /\ IF is_focus_time
       THEN /\ TotalSessions(History) < MaxSessions
            /\ data' = SetItem(data, "pomodoro_history", o.history)
            /\ file' = Dump(data')
       ELSE UNCHANGED <<data, file>>

timer_complete == Completed(CompleteOutcome)

skip_session == Completed(SkipOutcome)

\* (mutant) run_timer goes into timer_complete whenever it does not count down
run_timer_else_complete(running, armed) ==
    IF running /\ remaining_seconds > 0
    THEN /\ remaining_seconds' = remaining_seconds - 1
         /\ Len(armed) < MaxPending
         /\ pending' = Append(armed, TickDelay)
         /\ timer_running' = running
         /\ UNCHANGED <<is_focus_time, sessions_completed, data, file>>
    ELSE /\ timer_complete
         /\ pending' = armed

\* run_timer, called with timer_running = running; armed is the callbacks still
\* scheduled when it is called.
run_timer(running, armed) ==
    IF running /\ remaining_seconds > 0
    THEN /\ remaining_seconds' = remaining_seconds - 1
         /\ Len(armed) < MaxPending
         /\ pending' = Append(armed, TickDelay)
         /\ timer_running' = running
         /\ UNCHANGED <<is_focus_time, sessions_completed, data, file>>
    ELSE IF remaining_seconds = 0
    THEN /\ timer_complete
         /\ pending' = armed
    ELSE /\ timer_running' = running
         /\ pending' = armed
         /\ UNCHANGED <<remaining_seconds, is_focus_time, sessions_completed, data, file>>

\* build_content: the settings are read again from the store, and a countdown that
\* stands at 0 is set to a full focus period.
StoredSettings == Get("pomodoro_settings", default_data.pomodoro_settings)

build_content(stored) ==
    /\ settings' = Restrict(stored, SettingsFields)
    /\ remaining_seconds' =
           IF remaining_seconds = 0 THEN stored.focus_time * SecondsPerMinute
           ELSE remaining_seconds

-----------------------------------------------------------------------------
(* The files the process may find, and the texts a user may type *)

\* Durations an earlier run stored, in minutes: the long break differs from the break.
DiskDurations == {[focus_time |-> 1, break_time |-> 1, long_break_time |-> 2]}

DiskSettings ==
    {[focus_time |-> d.focus_time, break_time |-> d.break_time,
      long_break_time |-> d.long_break_time, sessions_before_long_break |-> n] :
        d \in DiskDurations, n \in 1..MaxCycle}

\* A document written by an earlier run (or a newer version: it has a key this version
\* does not know), every value different from the default.
UserDoc(s) ==
    [k \in CanonicalKeys \cup {ExtraKey} |->
        CASE k = "widget_positions" -> [pomodoro |-> [x |-> 40, y |-> 60]]
          [] k = "widget_colors" -> [w \in WidgetNames |-> "#FFFFFF"]
          [] k = "widget_sizes" -> [w \in WidgetNames |-> "expanded"]
          [] k = "widget_visible" -> [w \in WidgetNames |-> w # "todo"]
          [] k = "calendar_events" -> [e \in {"2024-01-01"} |-> <<"dentist">>]
          [] k = "todo_items" -> <<[text |-> "milk", done |-> FALSE]>>
          [] k = "day_plans" -> [e \in {"2024-01-01"} |-> [h \in {"09:00"} |-> "standup"]]
          [] k = "weekly_plans" -> [e \in {"2024-W01"} |-> [h \in {"Monday"} |-> "plan"]]
          [] k = "monthly_plans" -> [e \in {"2024-01"} |-> [h \in {"goals"} |-> "ship"]]
          [] k = "pomodoro_settings" -> s
          [] k = "pomodoro_history" -> EmptyDict
          [] k = "autostart" -> FALSE
          [] OTHER -> "dark"]

\* pomodoro_settings written by an older version that knew the focus time only.
PartialSettings == [focus_time |-> 1]

KeySets ==
    {K \in SUBSET (CanonicalKeys \cup {ExtraKey}) :
        Cardinality((CanonicalKeys \cup {ExtraKey}) \ K) <= MaxMissing} \cup {{}}

OldSettings ==
    [focus_time |-> 1, break_time |-> 1, long_break_time |-> 2,
     sessions_before_long_break |-> 2]

DiskObjects ==
    {Restrict(UserDoc(s), K) : s \in {OldSettings, PartialSettings}, K \in KeySets}

FileContents ==
    {Absent, Garbage, JsonText(JsonNumber), JsonText(JsonNull)}
    \cup {JsonText(JsonArray(S)) : S \in {{}, {"autostart"}, CanonicalKeys}}
    \cup {JsonText(JsonString(S)) : S \in {{}, CanonicalKeys}}
    \cup {JsonText(JsonObject(d)) : d \in DiskObjects}

\* pomodoro_history written by earlier runs: nothing, or a session on the Sunday of the
\* week before and one on the Monday of this week.
EarlierHistory ==
    [k \in {strftime(-7), strftime(-6)} |->
        IF k = strftime(-7) THEN [sessions |-> 1, focus_minutes |-> 25]
        ELSE [sessions |-> 1, focus_minutes |-> 2]]

DiskHistories == {EmptyDict, EarlierHistory}

\* A document of a version that had the calendar panel only: the four maps of the
\* panels have an entry for "calendar" and for no other panel.
SparseDoc ==
    [k \in DOMAIN UserDoc(OldSettings) |->
        IF k \in {"widget_positions", "widget_colors", "widget_sizes", "widget_visible"}
        THEN Restrict(UserDoc(OldSettings)[k], DOMAIN UserDoc(OldSettings)[k] \cap {"calendar"})
        ELSE UserDoc(OldSettings)[k]]

\* The panels the user drags and recolours, where a drag may end and the colours the
\* chooser may return.
DraggedPanels == {"pomodoro", "todo"}

DropPoints == {[x |-> 0, y |-> 0], [x |-> 40, y |-> 60]}

ChosenColors == {"#000000", "#E0F7FA"}

\* What an entry of the calendar or of a planner may hold when it is saved, the dates
\* the calendar and the day planner may show, and the slots of the planners.
EntryTexts == {"", "  ", " gym "}

ShownDates == {strftime(-6), strftime(0)}

PlanSlots == {"9", "10"}

\* What the user types into the focus, break and long break spinboxes before Save:
\* positive minutes, a zero or a negative in each place, and texts int() rejects.
FormInputs ==
    { <<IntText(1), IntText(1), IntText(2)>>,
      <<IntText(2), IntText(1), IntText(1)>>,
      <<IntText(0), IntText(1), IntText(2)>>,
      <<IntText(1), IntText(-1), IntText(2)>>,
      <<IntText(1), IntText(1), IntText(0)>>,
      <<WordText, IntText(1), IntText(2)>>,
      <<IntText(1), FloatText, IntText(2)>>,
      <<IntText(2), IntText(2), WordText>> }

\* A break of 0 minutes typed into the form.
ZeroInputs == { <<IntText(1), IntText(0), IntText(2)>> }

\* Durations above 0 typed into the form: a longer focus time, a shorter long break.
PositiveInputs == { <<IntText(2), IntText(1), IntText(1)>> }

\* The durations typed while sessions are recorded: the defaults, a shorter focus time
\* and a focus time below 0.
HistoryInputs ==
    { <<IntText(25), IntText(5), IntText(15)>>,
      <<IntText(2), IntText(1), IntText(1)>>,
      <<IntText(-1), IntText(1), IntText(2)>> }

-----------------------------------------------------------------------------
(* The state before the process starts *)

Ran(op, raised, completed) == [op |-> op, raised |-> raised, completed |-> completed]

\* No PomodoroWidget exists: the attributes hold the values __init__ gives them.
NoTimer ==
    /\ timer_running' = FALSE
    /\ is_focus_time' = TRUE
    /\ remaining_seconds' = 0
    /\ sessions_completed' = 0
    /\ settings' = NoSettings
    /\ is_expanded' = FALSE
    /\ pending' = <<>>

\* The stopwatch when nobody measures, when it is ready for the next Start, and when
\* it is ready for a period: it then counts the seconds the timer runs in the period,
\* over every Start and Pause, until the period ends.
NoClock == [on |-> FALSE, whole |-> FALSE, from |-> 0, elapsed |-> 0, late |-> 0]

ReadyClock == [on |-> TRUE, whole |-> FALSE, from |-> 0, elapsed |-> 0, late |-> 0]

PeriodClock == [on |-> TRUE, whole |-> TRUE, from |-> 0, elapsed |-> 0, late |-> 0]

\* The stopwatch after a step that ends the period if ends, and leaves it if not.
ClockAfter(ends) == IF clock.whole /\ ends THEN PeriodClock ELSE clock

\* The process is not running, the file holds f and the stopwatch is c.
InitOf(f, c) ==
    /\ clock = c
    /\ app = "down"
    /\ file = f
    /\ data = NoData
    /\ timer_running = FALSE
    /\ is_focus_time = TRUE
    /\ remaining_seconds = 0
    /\ sessions_completed = 0
    /\ settings = NoSettings
    /\ is_expanded = FALSE
    /\ pending = <<>>
    /\ today = 0
    /\ last = Ran("none", "none", FALSE)

InitWith(f) == InitOf(f, NoClock)

\* The process ends (an exception nobody catches, a kill, or destroy()).
ProcessEnds == app' = "down" /\ data' = NoData /\ NoTimer

\* save_data of document d by handler op: the file is opened with 'w', which empties
\* it, and json.dump then writes into it.  outcome "written": the handler goes on;
\* "interrupted": the process is killed before the text is complete; "refused": open
\* raises OSError and the file is as it was; "full": a write raises OSError after the
\* file was emptied.
save_data(d, outcome) ==
    CASE outcome = "written" -> file' = Dump(d)
      [] outcome = "refused" -> file' = file
      [] OTHER -> file' = DumpTruncated(d)

\* The outcomes of a save_data the operating system serves.
SaveOutcomes == {"written", "interrupted"}

\* The outcomes in which save_data raises and the process lives on.
SaveFailures == {"refused", "full"}

\* What a handler that called save_data raised.
SaveRaised(outcome) ==
    CASE outcome = "written" -> "none"
      [] outcome = "interrupted" -> "killed"
      [] OTHER -> "OSError"

-----------------------------------------------------------------------------
(* Start and end of the process *)

\* DataManager.__init__: load_data, which ends with save_data.
DataManagerInit(outcome) ==
    /\ app = "down"
    /\ save_data(LoadedData(file), outcome)
    /\ IF outcome = "written"
       THEN /\ app' = "loaded"
            /\ data' = LoadedData(file)
       ELSE /\ app' = "down"                  \* killed, or OSError ends ControlPanel()
            /\ data' = NoData
    /\ last' = Ran("load_data", SaveRaised(outcome), FALSE)
    /\ UNCHANGED <<timerVars, today, clock>>

\* The rest of ControlPanel.__init__: data_manager.get('autostart'), then the panels;
\* PomodoroWidget.__init__ and its first build_content.
CreateWidgets ==
    /\ app = "loaded"
    /\ UNCHANGED <<file, today, clock>>
    /\ IF data.kind # "object"
       THEN /\ ProcessEnds                    \* a list or str has no get()
            /\ last' = Ran("create_widgets", "AttributeError", FALSE)
       ELSE IF ~(SettingsFields \subseteq DOMAIN StoredSettings)
       THEN /\ ProcessEnds                    \* settings['break_time']
            /\ last' = Ran("create_widgets", "KeyError", FALSE)
       ELSE /\ app' = "up"
            /\ data' = data
            /\ timer_running' = FALSE
            /\ is_focus_time' = TRUE
            /\ sessions_completed' = 0
            /\ is_expanded' =
                   (DictGet(Get("widget_sizes", EmptyDict), "pomodoro", "compact") = "expanded")
            /\ build_content(StoredSettings)
            /\ pending' = <<>>
            /\ last' = Ran("create_widgets", "none", FALSE)

\* exit_app: save_data, then destroy(), which drops every scheduled callback.  When
\* save_data raises, destroy() is not reached and the main loop goes on.
ExitApp(outcome) ==
    /\ app = "up"
    /\ save_data(data, outcome)
    /\ IF outcome \in SaveFailures
       THEN UNCHANGED <<app, data, timerVars>>
       ELSE ProcessEnds
    /\ last' = Ran("exit_app", SaveRaised(outcome), FALSE)
    /\ UNCHANGED <<today, clock>>

\* (mutant) set without its save_data: the value stays in memory only
set_unsaved(key, value, outcome, op) ==
    /\ file' = file
    /\ data' = SetItem(data, key, value)
    /\ app' = app
    /\ last' = Ran(op, "none", FALSE)

\* (mutant) set catches what save_data raises and returns as if the value were saved
set_swallowing(key, value, outcome, op) ==
    /\ save_data(SetItem(data, key, value), outcome)
    /\ IF outcome = "interrupted"
       THEN /\ app' = "down"
            /\ data' = NoData
            /\ last' = Ran(op, "killed", FALSE)
       ELSE /\ data' = SetItem(data, key, value)
            /\ app' = app
            /\ last' = Ran(op, "none", FALSE)

\* DataManager.set(key, value) called by handler op: the item is assigned, then
\* save_data runs; what save_data raises goes to the handler, which does not catch it.
set(key, value, outcome, op) ==
    /\ save_data(SetItem(data, key, value), outcome)
    /\ IF outcome = "interrupted"
       THEN /\ app' = "down"
            /\ data' = NoData
       ELSE /\ data' = SetItem(data, key, value)
            /\ app' = app
    /\ last' = Ran(op, SaveRaised(outcome), FALSE)

\* ControlPanel.toggle_autostart
ToggleAutostart(enabled, outcome) ==
    /\ app = "up"
    /\ set("autostart", enabled, outcome, "toggle_autostart")
    /\ IF outcome = "interrupted" THEN NoTimer ELSE UNCHANGED timerVars
    /\ UNCHANGED <<today, clock>>

\* BaseWidget.hide_widget / show_widget of panel name
SetVisible(name, shown, outcome) ==
    /\ app = "up"
    /\ set("widget_visible", DictSet(Get("widget_visible", EmptyDict), name, shown),
           outcome, IF shown THEN "show_widget" ELSE "hide_widget")
    /\ IF outcome = "interrupted" THEN NoTimer ELSE UNCHANGED timerVars
    /\ UNCHANGED <<today, clock>>

\* BaseWidget.save_position of panel name, at the end of a drag to pos
SavePosition(name, pos) ==
    /\ app = "up"
    /\ set("widget_positions", DictSet(Get("widget_positions", EmptyDict), name, pos),
           "written", "save_position")
    /\ UNCHANGED <<timerVars, today, clock>>

\* BaseWidget.change_color of panel name, the chooser returning color
ChangeColor(name, color) ==
    /\ app = "up"
    /\ set("widget_colors", DictSet(Get("widget_colors", EmptyDict), name, color),
           "written", "change_color")
    /\ UNCHANGED <<timerVars, today, clock>>

\* CalendarWidget.add_event
AddEvent(date_key, text) ==
    /\ app = "up"
    /\ Len(DictGet(Get("calendar_events", EmptyDict), date_key, <<>>)) < MaxEvents
    /\ IF strip(text) # ""
       THEN set("calendar_events", add_event(Get("calendar_events", EmptyDict), date_key, text),
                "written", "add_event")
       ELSE /\ last' = Ran("add_event", "none", FALSE)
            /\ UNCHANGED <<app, data, file>>
    /\ UNCHANGED <<timerVars, today, clock>>

\* CalendarWidget.delete_event: an entry of the list of date_key is double-clicked
DeleteEvent(date_key, index) ==
    /\ app = "up"
    /\ date_key \in DOMAIN Get("calendar_events", EmptyDict)
    /\ index \in 1..Len(Get("calendar_events", EmptyDict)[date_key])
    /\ set("calendar_events", delete_event(Get("calendar_events", EmptyDict), date_key, index),
           "written", "delete_event")
    /\ UNCHANGED <<timerVars, today, clock>>

\* DayPlannerWidget.save_plan: the entry of hour loses the focus
SavePlan(date_key, hour, text) ==
    /\ app = "up"
    /\ set("day_plans", save_plan(Get("day_plans", EmptyDict), date_key, hour, text),
           "written", "save_plan")
    /\ UNCHANGED <<timerVars, today, clock>>

\* WeeklyPlannerWidget.save_week_plan: the entry of day_index loses the focus
SaveWeekPlan(week_key, day_index, text) ==
    /\ app = "up"
    /\ set("weekly_plans", save_plan(Get("weekly_plans", EmptyDict), week_key, day_index, text),
           "written", "save_week_plan")
    /\ UNCHANGED <<timerVars, today, clock>>

\* MonthlyPlannerWidget.save_goals: the text of category is saved
SaveGoals(month_key, category, text) ==
    /\ app = "up"
    /\ set("monthly_plans", save_plan(Get("monthly_plans", EmptyDict), month_key, category, text),
           "written", "save_goals")
    /\ UNCHANGED <<timerVars, today, clock>>

-----------------------------------------------------------------------------
(* The handlers of the pomodoro panel *)

\* Whether run_timer, called with timer_running = running, goes into timer_complete.
Completes(running) == ~(running /\ remaining_seconds > 0) /\ remaining_seconds = 0

\* toggle_timer: the Start / Pause button.  Starting calls run_timer at once.
ToggleTimer ==
    /\ app = "up"
    /\ IF ~timer_running
       THEN /\ run_timer(TRUE, pending)
            /\ last' = Ran("start", "none", Completes(TRUE))
            /\ clock' = IF clock.on /\ ~clock.whole
                        THEN [on |-> TRUE, whole |-> FALSE, from |-> remaining_seconds',
                              elapsed |-> 0, late |-> 0]
                        ELSE ClockAfter(Completes(TRUE))
       ELSE /\ timer_running' = FALSE
            /\ last' = Ran("pause", "none", FALSE)
            /\ UNCHANGED <<remaining_seconds, is_focus_time, sessions_completed,
                           pending, data, file, clock>>
    /\ UNCHANGED <<app, settings, is_expanded, today>>

\* A scheduled run_timer callback comes due and the main loop calls it.
Tick ==
    /\ app = "up"
    /\ pending # <<>>
    /\ Head(pending) = 0
    /\ run_timer(timer_running, Tail(pending))
    /\ last' = Ran("tick", "none", Completes(timer_running))
    /\ clock' = ClockAfter(Completes(timer_running))
    /\ UNCHANGED <<app, settings, is_expanded, today>>

\* One second passes with no callback due (the main loop calls a callback when due).
Elapse ==
    /\ app = "up"
    /\ pending # <<>>
    /\ \A i \in 1..Len(pending) : pending[i] > 0
    /\ pending' = [i \in 1..Len(pending) |-> pending[i] - 1]
    /\ clock' = IF clock.on /\ timer_running
                THEN [clock EXCEPT !.elapsed = @ + 1]
                ELSE clock
    /\ UNCHANGED <<app, file, data, timer_running, is_focus_time, remaining_seconds,
                   sessions_completed, settings, is_expanded, today, last>>

\* One second passes while a callback is due and the main loop has not called it yet:
\* after(1000, ...) calls no earlier than 1000 ms later, and later when the loop is busy.
Late ==
    /\ app = "up"
    /\ timer_running
    /\ clock.on
    /\ clock.late < MaxLate
    /\ \E i \in 1..Len(pending) : pending[i] = 0
    /\ pending' = [i \in 1..Len(pending) |-> IF pending[i] > 0 THEN pending[i] - 1 ELSE 0]
    /\ clock' = [clock EXCEPT !.elapsed = @ + 1, !.late = @ + 1]
    /\ UNCHANGED <<app, file, data, timer_running, is_focus_time, remaining_seconds,
                   sessions_completed, settings, is_expanded, today, last>>

\* (mutant) Reset also starts the cycle of sessions again
ResetTimerClearing ==
    /\ app = "up"
    /\ timer_running' = FALSE
    /\ is_focus_time' = TRUE
    /\ remaining_seconds' = settings.focus_time * SecondsPerMinute
    /\ sessions_completed' = 0
    /\ last' = Ran("reset", "none", FALSE)
    /\ UNCHANGED <<app, file, data, settings, is_expanded, pending, today, clock>>

\* reset_timer
ResetTimer ==
    /\ app = "up"
    /\ timer_running' = FALSE
    /\ is_focus_time' = TRUE
    /\ remaining_seconds' = settings.focus_time * SecondsPerMinute
    /\ last' = Ran("reset", "none", FALSE)
    /\ clock' = ClockAfter(TRUE)
    /\ UNCHANGED <<app, file, data, sessions_completed, settings, is_expanded,
                   pending, today>>

\* timer_complete of a focus period when save_data raises inside record_session: the
\* assignments before the call are made, those after it are not, and the exception
\* goes to the main loop, which reports it and goes on.
CompletedRaising(outcome) ==
    /\ is_focus_time
    /\ TotalSessions(History) < MaxSessions
    /\ timer_running' = FALSE
    /\ sessions_completed' = sessions_completed + 1
    /\ data' = SetItem(data, "pomodoro_history", CompleteOutcome.history)
    /\ save_data(data', outcome)
    /\ UNCHANGED <<is_focus_time, remaining_seconds>>

\* A scheduled run_timer callback finds the focus countdown at 0 and save_data raises.
TickRaising(outcome) ==
    /\ app = "up"
    /\ pending # <<>>
    /\ Head(pending) = 0
    /\ Completes(timer_running)
    /\ CompletedRaising(outcome)
    /\ pending' = Tail(pending)
    /\ last' = Ran("tick", SaveRaised(outcome), TRUE)
    /\ UNCHANGED <<app, settings, is_expanded, today, clock>>

\* skip_session of a focus period when save_data raises
SkipSessionRaising(outcome) ==
    /\ app = "up"
    /\ CompletedRaising(outcome)
    /\ last' = Ran("skip", SaveRaised(outcome), TRUE)
    /\ UNCHANGED <<app, settings, is_expanded, pending, today, clock>>

\* skip_session
SkipSession ==
    /\ app = "up"
    /\ skip_session
    /\ last' = Ran("skip", "none", TRUE)
    /\ clock' = ClockAfter(TRUE)
    /\ UNCHANGED <<app, settings, is_expanded, pending, today>>

\* (mutant) the countdown is set to the new focus time whether or not it is running
save_settings_restarting(focus_text, break_text, long_text) ==
    IF IntRaises(focus_text) \/ IntRaises(break_text) \/ IntRaises(long_text)
    THEN /\ last' = Ran("save_settings", "ValueError", FALSE)
         /\ UNCHANGED <<data, file, settings, remaining_seconds>>
    ELSE /\ data' = SetItem(data, "pomodoro_settings",
                       [focus_time |-> IntOf(focus_text),
                        break_time |-> IntOf(break_text),
                        long_break_time |-> IntOf(long_text),
                        sessions_before_long_break |-> settings.sessions_before_long_break])
         /\ file' = Dump(data')
         /\ settings' = [settings EXCEPT !.focus_time = IntOf(focus_text),
                                         !.break_time = IntOf(break_text),
                                         !.long_break_time = IntOf(long_text)]
         /\ remaining_seconds' = IntOf(focus_text) * SecondsPerMinute
         /\ last' = Ran("save_settings", "none", FALSE)

\* save_settings: the Save Settings button of the expanded panel, with the texts of
\* the three spinboxes.
save_settings(focus_text, break_text, long_text) ==
    IF IntRaises(focus_text) \/ IntRaises(break_text) \/ IntRaises(long_text)
    THEN /\ last' = Ran("save_settings", "ValueError", FALSE)
         /\ UNCHANGED <<data, file, settings, remaining_seconds>>
    ELSE /\ data' = SetItem(data, "pomodoro_settings",
                       [focus_time |-> IntOf(focus_text),
                        break_time |-> IntOf(break_text),
                        long_break_time |-> IntOf(long_text),
                        sessions_before_long_break |-> settings.sessions_before_long_break])
         /\ file' = Dump(data')
         /\ settings' = [settings EXCEPT !.focus_time = IntOf(focus_text),
                                         !.break_time = IntOf(break_text),
                                         !.long_break_time = IntOf(long_text)]
         /\ remaining_seconds' =
                IF ~timer_running THEN IntOf(focus_text) * SecondsPerMinute
                ELSE remaining_seconds
         /\ last' = Ran("save_settings", "none", FALSE)

SaveSettings(focus_text, break_text, long_text) ==
    /\ app = "up"
    /\ is_expanded
    /\ save_settings(focus_text, break_text, long_text)
    /\ UNCHANGED <<app, timer_running, is_focus_time, sessions_completed, is_expanded,
                   pending, today, clock>>

\* toggle_expand of the pomodoro panel: the size mode is stored and the content rebuilt.
ToggleExpand ==
    /\ app = "up"
    /\ is_expanded' = ~is_expanded
    /\ data' = SetItem(data, "widget_sizes",
                       DictSet(Get("widget_sizes", EmptyDict), "pomodoro",
                               IF ~is_expanded THEN "expanded" ELSE "compact"))
    /\ file' = Dump(data')
    /\ build_content(StoredSettings)
    /\ last' = Ran("toggle_expand", "none", FALSE)
    /\ UNCHANGED <<app, timer_running, is_focus_time, sessions_completed, pending, today, clock>>

\* Midnight: datetime.now() moves to the next day.
NextDay ==
    /\ today < MaxDay
    /\ today' = today + 1
    /\ UNCHANGED <<app, file, data, timerVars, last, clock>>

-----------------------------------------------------------------------------
(* Specifications *)

\* The timer: the process finds a complete document of an earlier run.
Init == \E s \in DiskSettings : InitWith(JsonText(JsonObject(UserDoc(s))))

Next ==
    \/ DataManagerInit("written")
    \/ CreateWidgets
    \/ ExitApp("written")
    \/ ToggleTimer
    \/ Tick
    \/ Elapse
    \/ ResetTimer
    \/ SkipSession

Spec == Init /\ [][Next]_vars

\* The store: the process finds any file, and may be killed while it saves.
InitStore == \E f \in FileContents : InitWith(f)

NextStore ==
    \/ \E o \in SaveOutcomes : DataManagerInit(o)
    \/ CreateWidgets
    \/ \E o \in SaveOutcomes : ExitApp(o)
    \/ \E e \in BOOLEAN, o \in SaveOutcomes : ToggleAutostart(e, o)
    \/ \E w \in WidgetNames, v \in BOOLEAN, o \in SaveOutcomes : SetVisible(w, v, o)

SpecStore == InitStore /\ [][NextStore]_vars

\* The store on a disk that may refuse a write or be full: the control panel's
\* autostart switch and the panels it hides and shows.
ShownPanels == {"pomodoro", "todo"}

InitFailing == InitWith(JsonText(JsonObject(UserDoc(OldSettings))))

NextFailing ==
    \/ \E o \in {"written"} \cup SaveFailures : DataManagerInit(o)
    \/ CreateWidgets
    \/ \E o \in {"written"} \cup SaveFailures : ExitApp(o)
    \/ \E e \in BOOLEAN, o \in {"written"} \cup SaveFailures : ToggleAutostart(e, o)
    \/ \E w \in ShownPanels, v \in BOOLEAN, o \in {"written"} \cup SaveFailures :
           SetVisible(w, v, o)

SpecFailing == InitFailing /\ [][NextFailing]_vars

\* The countdown on a disk that may refuse a write or be full when a session is
\* recorded.
InitUnsaved == InitWith(JsonText(JsonObject(UserDoc(OldSettings))))

NextUnsaved ==
    \/ DataManagerInit("written")
    \/ CreateWidgets
    \/ ToggleTimer
    \/ Tick
    \/ Elapse
    \/ SkipSession
    \/ \E o \in SaveFailures : TickRaising(o)
    \/ \E o \in SaveFailures : SkipSessionRaising(o)

SpecUnsaved == InitUnsaved /\ [][NextUnsaved]_vars

\* The countdown while the panel is switched between compact and expanded.
InitPanel == InitWith(JsonText(JsonObject(UserDoc(OldSettings))))

NextPanel ==
    \/ DataManagerInit("written")
    \/ CreateWidgets
    \/ ToggleTimer
    \/ Tick
    \/ Elapse
    \/ ToggleExpand

SpecPanel == InitPanel /\ [][NextPanel]_vars

\* The countdown under a main loop that calls every scheduled callback when it is due:
\* time passes while callbacks wait, and a callback that is due is called.
InitLive == InitWith(JsonText(JsonObject(UserDoc(OldSettings))))

NextLive ==
    \/ DataManagerInit("written")
    \/ CreateWidgets
    \/ ToggleTimer
    \/ Tick
    \/ Elapse
    \/ SkipSession
    \/ \E i \in ZeroInputs : SaveSettings(i[1], i[2], i[3])

SpecLive == InitLive /\ [][NextLive]_vars /\ WF_vars(Tick) /\ WF_vars(Elapse)

\* The history: sessions are completed over several days and runs of the process, and
\* the focus time is changed in between.
InitHistory ==
    \E h \in DiskHistories :
        InitWith(JsonText(JsonObject(DictSet(UserDoc(OldSettings), "pomodoro_history", h))))

NextHistory ==
    \/ DataManagerInit("written")
    \/ CreateWidgets
    \/ ExitApp("written")
    \/ SkipSession
    \/ \E i \in HistoryInputs : SaveSettings(i[1], i[2], i[3])
    \/ NextDay

SpecHistory == InitHistory /\ [][NextHistory]_vars

\* The countdown with the settings form: periods are completed while callbacks are
\* scheduled, under durations saved in the form.
InitStale == InitWith(JsonText(JsonObject(UserDoc(OldSettings))))

NextStale ==
    \/ DataManagerInit("written")
    \/ CreateWidgets
    \/ ToggleTimer
    \/ Tick
    \/ Elapse
    \/ SkipSession
    \/ \E i \in ZeroInputs : SaveSettings(i[1], i[2], i[3])

SpecStale == InitStale /\ [][NextStale]_vars

\* The countdown with every button of the panel and durations above 0 saved in the
\* form, while callbacks are scheduled.
InitRecord == InitWith(JsonText(JsonObject(UserDoc(OldSettings))))

NextRecord ==
    \/ DataManagerInit("written")
    \/ CreateWidgets
    \/ ToggleTimer
    \/ Tick
    \/ Elapse
    \/ ResetTimer
    \/ SkipSession
    \/ \E i \in PositiveInputs : SaveSettings(i[1], i[2], i[3])

SpecRecord == InitRecord /\ [][NextRecord]_vars

\* The countdown beside a stopwatch, with callbacks that may come late.
InitClock == InitOf(JsonText(JsonObject(UserDoc(OldSettings))), ReadyClock)

NextClock ==
    \/ DataManagerInit("written")
    \/ CreateWidgets
    \/ ToggleTimer
    \/ Tick
    \/ Elapse
    \/ Late

SpecClock == InitClock /\ [][NextClock]_vars

\* The countdown beside a stopwatch of the period: Start and Pause in any order.
InitRunning == InitOf(JsonText(JsonObject(UserDoc(OldSettings))), PeriodClock)

NextRunning ==
    \/ DataManagerInit("written")
    \/ CreateWidgets
    \/ ToggleTimer
    \/ Tick
    \/ Elapse
    \/ ResetTimer

SpecRunning == InitRunning /\ [][NextRunning]_vars

\* The panels: they are dragged, recoloured, hidden, shown and resized, over runs of
\* the process.
InitRegistry ==
    \E d \in {UserDoc(OldSettings), SparseDoc} : InitWith(JsonText(JsonObject(d)))

NextRegistry ==
    \/ DataManagerInit("written")
    \/ CreateWidgets
    \/ ExitApp("written")
    \/ \E w \in DraggedPanels, pos \in DropPoints : SavePosition(w, pos)
    \/ \E w \in DraggedPanels, c \in ChosenColors : ChangeColor(w, c)
    \/ \E w \in ShownPanels, v \in BOOLEAN : SetVisible(w, v, "written")
    \/ ToggleExpand

SpecRegistry == InitRegistry /\ [][NextRegistry]_vars

\* The calendar and the planners: entries are added, filled, cleared and deleted.
InitPlans == InitWith(JsonText(JsonObject(UserDoc(OldSettings))))

NextPlans ==
    \/ DataManagerInit("written")
    \/ CreateWidgets
    \/ \E d \in ShownDates, t \in EntryTexts : AddEvent(d, t)
    \/ \E d \in ShownDates, i \in 1..MaxEvents : DeleteEvent(d, i)
    \/ \E d \in ShownDates, h \in PlanSlots, t \in EntryTexts : SavePlan(d, h, t)
    \/ \E t \in EntryTexts : SaveWeekPlan("2024-01", "0", t)
    \/ \E t \in EntryTexts : SaveGoals("2024-01", "goals", t)

SpecPlans == InitPlans /\ [][NextPlans]_vars

\* The expanded panel: the timer buttons and the settings form, with no callback
\* coming due.
InitSettings == InitWith(JsonText(JsonObject(UserDoc(OldSettings))))

NextSettings ==
    \/ DataManagerInit("written")
    \/ CreateWidgets
    \/ ToggleTimer
    \/ ResetTimer
    \/ SkipSession
    \/ \E i \in FormInputs : SaveSettings(i[1], i[2], i[3])
    \/ ToggleExpand

SpecSettings == InitSettings /\ [][NextSettings]_vars

-----------------------------------------------------------------------------
(* Steps the properties name *)

\* A step in which run_timer goes into timer_complete: a callback that finds the
\* countdown at 0, or Start pressed with the countdown at 0.
NaturalExpiry ==
    \/ Tick /\ Completes(timer_running)
    \/ ToggleTimer /\ ~timer_running /\ Completes(TRUE)

\* A step of the countdown: Start, Pause or a callback, with no completion.
CountdownStep ==
    \/ Tick /\ ~Completes(timer_running)
    \/ ToggleTimer /\ ~(~timer_running /\ Completes(TRUE))

IsDocument(f) == f.kind = "json" /\ f.value.kind = "object"

\* pomodoro_history as the file holds it.
StoredHistory ==
    IF IsDocument(file) /\ "pomodoro_history" \in DOMAIN file.value.doc
    THEN file.value.doc["pomodoro_history"]
    ELSE EmptyDict

\* The Monday on or before day number ref.
MondayOnOrBefore(ref) == CHOOSE m \in (ref - 6)..ref : weekday(m) = 0

\* The sum of field f over the buckets of history whose date is one of dates.
BucketSum(history, dates, f) ==
    LET RECURSIVE Sum(_)
        Sum(S) == IF S = {} THEN 0
                  ELSE LET k == CHOOSE k \in S : TRUE
                       IN history[k][f] + Sum(S \ {k})
    IN Sum(DOMAIN history \cap dates)

\* self.data and the file after a handler changed the entry of panel name in the map
\* under key to value, and nothing else.
OnlyEntryChanged(key, name, value) ==
    /\ DOMAIN data'.doc = DOMAIN data.doc
    /\ \A k \in DOMAIN data.doc \ {key} : data'.doc[k] = data.doc[k]
    /\ DOMAIN data'.doc[key] = DOMAIN data.doc[key] \cup {name}
    /\ data'.doc[key][name] = value
    /\ \A other \in DOMAIN data.doc[key] \ {name} : data'.doc[key][other] = data.doc[key][other]
    /\ file' = JsonText(data')

\* A set whose save_data raises.
FailedSet ==
    \/ \E e \in BOOLEAN, o \in SaveFailures : ToggleAutostart(e, o)
    \/ \E w \in WidgetNames, v \in BOOLEAN, o \in SaveFailures : SetVisible(w, v, o)

\* A save_data that returns.
CompletedSave ==
    \/ ExitApp("written")
    \/ \E e \in BOOLEAN : ToggleAutostart(e, "written")
    \/ \E w \in WidgetNames, v \in BOOLEAN : SetVisible(w, v, "written")

\* A save the kill interrupts.
InterruptedSave ==
    \/ DataManagerInit("interrupted")
    \/ ExitApp("interrupted")
    \/ \E e \in BOOLEAN : ToggleAutostart(e, "interrupted")
    \/ \E w \in WidgetNames, v \in BOOLEAN : SetVisible(w, v, "interrupted")

\* The period the panel is in.  timer_complete leaves the counter at 0 when it starts a
\* long break and above 0 when it starts a break.
Phase ==
    IF is_focus_time THEN "FOCUS"
    ELSE IF sessions_completed = 0 THEN "LONG_BREAK" ELSE "BREAK"

\* The configured length in seconds of period p under the durations s.
PhaseSeconds(p, s) ==
    SecondsPerMinute * (CASE p = "FOCUS" -> s.focus_time
                          [] p = "BREAK" -> s.break_time
                          [] OTHER -> s.long_break_time)

\* Spinbox texts that are whole numbers above 0.
ValidInput(i) == \A j \in 1..3 : ~IntRaises(i[j]) /\ IntOf(i[j]) > 0

\* The durations the texts i stand for.
InputDurations(i) ==
    [focus_time |-> IntOf(i[1]), break_time |-> IntOf(i[2]), long_break_time |-> IntOf(i[3])]

-----------------------------------------------------------------------------
(* Properties *)

\* C1: at most one run_timer callback is scheduled at any time.
C1_AtMostOneTickPending == Len(pending) <= 1

\* C2: completing a focus period with sessions_before_long_break = N > 0 counts the
\* session and records one session in the history; the next period is the long break
\* (long_break_time * 60 seconds) with the counter back at 0 exactly when the counter
\* reached N, and otherwise the break (break_time * 60 seconds) with the counter kept.
C2_SessionCycle ==
    [][(/\ NaturalExpiry \/ SkipSession
        /\ is_focus_time
        /\ settings.sessions_before_long_break > 0)
       => /\ TotalSessions(History') = TotalSessions(History) + 1
          /\ ~is_focus_time'
          /\ IF sessions_completed + 1 >= settings.sessions_before_long_break
             THEN /\ remaining_seconds' = settings.long_break_time * SecondsPerMinute
                  /\ sessions_completed' = 0
             ELSE /\ remaining_seconds' = settings.break_time * SecondsPerMinute
                  /\ sessions_completed' = sessions_completed + 1]_vars

\* C2 witness: with N = 4 the fourth completion in a row has just started the long
\* break and put the counter back to 0.
C2_FourthCompletion ==
    /\ app = "up"
    /\ last.completed
    /\ settings.sessions_before_long_break = 4
    /\ TotalSessions(History) = 4
    /\ ~is_focus_time
    /\ sessions_completed = 0
    /\ remaining_seconds = settings.long_break_time * SecondsPerMinute
    /\ settings.long_break_time # settings.break_time

\* C3: what Skip would do (next period, remaining seconds, counter, running flag and
\* history) is the same at every point of a countdown, and a countdown that reaches
\* zero by itself leaves exactly that session state.
C3_SkipEquivalence ==
    [][/\ CountdownStep => SkipOutcome' = SkipOutcome
       /\ NaturalExpiry => SessionState' = SkipOutcome]_vars

\* C3 witness: a focus countdown started at 60 has run to 0 and its last callback has
\* completed the period.
C3_ExpiredByItself ==
    /\ app = "up"
    /\ last.op = "tick"
    /\ last.completed
    /\ ~is_focus_time
    /\ TotalSessions(History) = 1

\* C4: Pause stops the timer and keeps remaining_seconds; Start only sets
\* timer_running and schedules a callback; a callback that finds the timer paused
\* does not decrement.
C4_PauseKeepsRemaining ==
    [][/\ (ToggleTimer /\ timer_running)
          => ~timer_running' /\ remaining_seconds' = remaining_seconds
       /\ (ToggleTimer /\ ~timer_running /\ remaining_seconds > 0)
          => timer_running' /\ remaining_seconds' = remaining_seconds
       /\ (Tick /\ ~timer_running /\ remaining_seconds > 0)
          => remaining_seconds' = remaining_seconds]_vars

\* C5: a callback that finds the timer not running changes nothing, whatever
\* remaining_seconds is; one that finds it running decrements and schedules the next
\* callback when remaining_seconds > 0 and completes the period when it is 0.
C5_TickOnlyWhileRunning ==
    [][/\ (Tick /\ ~timer_running)
          => /\ UNCHANGED <<timer_running, is_focus_time, remaining_seconds,
                            sessions_completed, data, file>>
             /\ pending' = Tail(pending)
       /\ (Tick /\ timer_running /\ remaining_seconds > 0)
          => /\ remaining_seconds' = remaining_seconds - 1
             /\ pending' = Append(Tail(pending), TickDelay)
       /\ (Tick /\ timer_running /\ remaining_seconds = 0)
          => SessionState' = CompleteOutcome]_vars

\* C6: load_data of a file that holds a JSON object leaves every canonical key in
\* self.data, every key of the file with the value the file had, and the file equal
\* to self.data.
C6_LoadMerge ==
    [][(DataManagerInit("written") /\ IsDocument(file))
       => /\ data'.kind = "object"
          /\ CanonicalKeys \subseteq DOMAIN data'.doc
          /\ \A k \in DOMAIN file.value.doc :
                 k \in DOMAIN data'.doc /\ data'.doc[k] = file.value.doc[k]
          /\ file' = JsonText(data')]_vars

\* C6 witness: loaded from a file of an older version: the autostart key was missing
\* and now has its default, the settings object of the file is kept as it was.
C6_LoadedOlderDocument ==
    /\ app = "loaded"
    /\ last.op = "load_data"
    /\ data.kind = "object"
    /\ ExtraKey \in DOMAIN data.doc
    /\ data.doc["autostart"] = default_data["autostart"]
    /\ data.doc["pomodoro_settings"] = PartialSettings
    /\ data.doc["widget_colors"] # default_data["widget_colors"]

\* C7: when set(key, value) has returned, a load of the file by a new DataManager
\* gives value for key, and the file holds self.data.
C7_WriteThrough ==
    [][/\ \A e \in BOOLEAN :
              ToggleAutostart(e, "written")
              => /\ LoadedData(file').doc["autostart"] = e
                 /\ file' = JsonText(data')
                 /\ LoadedData(file') = data'
       /\ \A w \in WidgetNames, v \in BOOLEAN :
              SetVisible(w, v, "written")
              => /\ LoadedData(file').doc["widget_visible"][w] = v
                 /\ file' = JsonText(data')
                 /\ LoadedData(file') = data']_vars

\* C7 witness: set('autostart', False) has returned after an earlier
\* set('widget_visible', ...) that hid the pomodoro panel.
C7_SetReturned ==
    /\ app = "up"
    /\ last.op = "toggle_autostart"
    /\ last.raised = "none"
    /\ ~data.doc["autostart"]
    /\ ~data.doc["widget_visible"]["pomodoro"]
    /\ data.doc["widget_visible"]["calendar"]

\* C8: load_data of a file that json.load rejects, or that holds JSON other than an
\* object, leaves the canonical default document in self.data.
C8_CorruptGivesDefaults ==
    [][(/\ DataManagerInit("written")
        /\ file.kind = "garbage" \/ (file.kind = "json" /\ file.value.kind # "object"))
       => data' = JsonObject(default_data)]_vars

\* C9: a save that is interrupted while the file holds a document leaves that document
\* or the complete new one in the file.
C9_SaveIsAtomic ==
    [][(InterruptedSave /\ IsDocument(file)) => (file' = file \/ IsDocument(file'))]_vars

\* C10: Save Settings with a duration that is not a number or not positive reports an
\* error and leaves the stored settings, the durations of the panel and
\* remaining_seconds as they were.
C10_InvalidSettingsRejected ==
    [][\A i \in FormInputs :
          (/\ SaveSettings(i[1], i[2], i[3])
           /\ \E j \in 1..3 : IntRaises(i[j]) \/ IntOf(i[j]) <= 0)
          => /\ last'.raised = "ValueError"
             /\ UNCHANGED <<data, file, settings, remaining_seconds>>]_vars

\* C11: Save Settings with valid durations while the timer is not running sets
\* remaining_seconds to the new duration of the period the panel is in (focus, break
\* or long break) and leaves the period and the session counter as they were.
C11_SettingsResetCurrentPhase ==
    [][\A i \in FormInputs :
          (SaveSettings(i[1], i[2], i[3]) /\ ValidInput(i) /\ ~timer_running)
          => /\ remaining_seconds' = PhaseSeconds(Phase, InputDurations(i))
             /\ is_focus_time' = is_focus_time
             /\ sessions_completed' = sessions_completed]_vars

\* C12: Save Settings with valid durations while the timer is running leaves
\* remaining_seconds, the period, timer_running and the scheduled callbacks as they
\* were; the next completion starts its period with the new duration.
C12_RunningCountdownKept ==
    [][\A i \in FormInputs :
          (SaveSettings(i[1], i[2], i[3]) /\ ValidInput(i) /\ timer_running)
          => /\ UNCHANGED <<remaining_seconds, is_focus_time, sessions_completed,
                            timer_running, pending>>
             /\ Restrict(settings', DOMAIN InputDurations(i)) = InputDurations(i)
             /\ LET o == CompleteOutcome'
                    next == IF o.is_focus_time THEN "FOCUS"
                            ELSE IF o.sessions_completed = 0 THEN "LONG_BREAK"
                            ELSE "BREAK"
                IN o.remaining_seconds = PhaseSeconds(next, InputDurations(i))]_vars

\* C12 witness: the settings were saved with a focus time of 2 minutes while the
\* countdown of a 1 minute focus period was running; it stands where it stood.
C12_SavedWhileRunning ==
    /\ app = "up"
    /\ last.op = "save_settings"
    /\ last.raised = "none"
    /\ timer_running
    /\ is_focus_time
    /\ settings.focus_time = 2
    /\ remaining_seconds = 59
    /\ pending # <<>>

\* C14: a break or long break that ends (by itself or by Skip) is followed by a focus
\* period of focus_time * 60 seconds; the session counter, the history and the file
\* stay as they were.
C14_BreakCompletion ==
    [][((NaturalExpiry \/ SkipSession) /\ ~is_focus_time)
       => /\ is_focus_time'
          /\ ~timer_running'
          /\ remaining_seconds' = settings.focus_time * SecondsPerMinute
          /\ UNCHANGED <<sessions_completed, data, file, settings>>]_vars

\* C14 witness: a break has run down and its last callback has started the second
\* focus period of a cycle, with one session counted and recorded.
C14_BreakExpired ==
    /\ app = "up"
    /\ last.op = "tick"
    /\ last.completed
    /\ is_focus_time
    /\ sessions_completed = 1
    /\ TotalSessions(History) = 1
    /\ remaining_seconds = settings.focus_time * SecondsPerMinute

\* C15: Reset leaves a focus period of focus_time * 60 seconds that is not running, and
\* leaves the session counter, the durations, the history and the file as they were.
C15_ResetFrame ==
    [][ResetTimer
       => /\ is_focus_time'
          /\ ~timer_running'
          /\ remaining_seconds' = settings.focus_time * SecondsPerMinute
          /\ UNCHANGED <<sessions_completed, settings, data, file>>]_vars

\* C15 witness: Reset was pressed during a running break, after one session of the
\* cycle; the session is still counted and recorded.
C15_ResetDuringBreak ==
    /\ app = "up"
    /\ last.op = "reset"
    /\ is_focus_time
    /\ ~timer_running
    /\ pending # <<>>
    /\ sessions_completed = 1
    /\ TotalSessions(History) = 1

\* C20: when save_data raises inside set(key, value) the handler that called set gets
\* the exception, self.data holds value for key and the process goes on with it; the
\* next save_data that returns leaves the file equal to self.data.
C20_FailedSaveSurfaced ==
    [][/\ FailedSet
          => /\ last'.raised = "OSError"
             /\ app' = "up"
             /\ data'.kind = "object"
       /\ \A e \in BOOLEAN, o \in SaveFailures :
              ToggleAutostart(e, o) => data'.doc["autostart"] = e
       /\ \A w \in WidgetNames, v \in BOOLEAN, o \in SaveFailures :
              SetVisible(w, v, o) => data'.doc["widget_visible"][w] = v
       /\ (CompletedSave /\ file # JsonText(data))
          => file' = JsonText(IF app' = "up" THEN data' ELSE data)]_vars

\* C20 witness: set('autostart', True) raised on a full disk; the value is in
\* self.data and the file does not hold the document.
C20_SetRaised ==
    /\ app = "up"
    /\ last.op = "toggle_autostart"
    /\ last.raised = "OSError"
    /\ data.doc["autostart"]
    /\ file = Garbage

\* C17: a focus period that ends adds 1 to sessions and focus_time, as it is when the
\* period ends, to focus_minutes of the bucket of the current date, which starts from
\* zeros if the history had none; every other bucket stays as it was.
C17_RecordSession ==
    [][((NaturalExpiry \/ SkipSession) /\ is_focus_time)
       => LET day == strftime(today)
              before == IF day \in DOMAIN History THEN History[day]
                        ELSE [sessions |-> 0, focus_minutes |-> 0]
          IN /\ DOMAIN History' = DOMAIN History \cup {day}
             /\ History'[day].sessions = before.sessions + 1
             /\ History'[day].focus_minutes = before.focus_minutes + settings.focus_time
             /\ \A d \in DOMAIN History \ {day} : History'[d] = History[d]
             /\ StoredHistory' = History']_vars

\* C17 witness: two sessions of 25 minutes were completed on a day, a day after the
\* buckets an earlier run wrote, which are as they were.
C17_TwoSessionsOfADay ==
    /\ app = "up"
    /\ last.op = "skip"
    /\ settings.focus_time = 25
    /\ strftime(today) \in DOMAIN History
    /\ History[strftime(today)] = [sessions |-> 2, focus_minutes |-> 50]
    /\ \A d \in DOMAIN EarlierHistory :
           d \in DOMAIN History /\ History[d] = EarlierHistory[d]

\* C18: in the stored history no bucket is ever removed, sessions and focus_minutes of
\* a bucket never go down, and every bucket has at least one session.
C18_HistoryAppendOnly ==
    [][/\ \A d \in DOMAIN StoredHistory :
              /\ d \in DOMAIN StoredHistory'
              /\ StoredHistory'[d].sessions >= StoredHistory[d].sessions
              /\ StoredHistory'[d].focus_minutes >= StoredHistory[d].focus_minutes
       /\ \A d \in DOMAIN StoredHistory' : StoredHistory'[d].sessions >= 1]_vars

\* C19: get_week_stats gives the sums of sessions and focus_minutes over the buckets
\* dated from the Monday on or before the current date to the Sunday after it; dates
\* without a bucket count nothing, buckets of other dates are left out.
C19_WeekStats ==
    app = "up" =>
        LET week == {strftime(MondayOnOrBefore(today) + i) : i \in 0..6}
        IN get_week_stats(History, today) =
               [sessions |-> BucketSum(History, week, "sessions"),
                minutes |-> BucketSum(History, week, "focus_minutes")]

\* C19 witness: the expanded panel shows the week of a Sunday; the history has a bucket
\* of the Sunday before (left out), of the Monday of the week and of the day itself.
C19_WeekWithOlderBucket ==
    /\ app = "up"
    /\ is_expanded
    /\ today = 0
    /\ {strftime(-7), strftime(-6), strftime(0)} \subseteq DOMAIN History
    /\ get_week_stats(History, today).sessions =
           History[strftime(-6)].sessions + History[strftime(0)].sessions
    /\ get_week_stats(History, today).sessions < TotalSessions(History)

\* C13: a completion (by itself or by Skip) leaves the timer stopped with
\* remaining_seconds at the configured duration of the period it starts; a callback
\* still scheduled from before the completion then decrements nothing and completes
\* nothing.
C13_CompletionStopsTimer ==
    [][/\ (NaturalExpiry \/ SkipSession)
          => /\ ~timer_running'
             /\ remaining_seconds' = PhaseSeconds(Phase', settings)
       /\ (Tick /\ last.completed /\ ~timer_running)
          => UNCHANGED <<timer_running, is_focus_time, remaining_seconds,
                         sessions_completed, data, file>>]_vars

\* C16: whenever a callback has decremented a running countdown, remaining_seconds is
\* what the countdown showed when it was started less the seconds that have passed
\* since, and not below 0, however late the callbacks came.
C16_NoDrift ==
    [][(Tick /\ clock.on /\ timer_running /\ remaining_seconds > 0)
       => remaining_seconds' =
              IF clock.from > clock.elapsed THEN clock.from - clock.elapsed ELSE 0]_vars

\* C21: a top-level key of the file that default_data does not have is kept with its
\* value by load_data and by every set and save_data that returns, in self.data and
\* in the file.
C21_UnknownKeysKept ==
    [][((DataManagerInit("written") \/ CreateWidgets \/ CompletedSave) /\ IsDocument(file))
       => \A k \in DOMAIN file.value.doc \ CanonicalKeys :
              /\ IsDocument(file')
              /\ k \in DOMAIN file'.value.doc
              /\ file'.value.doc[k] = file.value.doc[k]
              /\ data'.kind = "object"
                 => k \in DOMAIN data'.doc /\ data'.doc[k] = file.value.doc[k]]_vars

\* C21 witness: the file had the key "theme"; after load_data and two sets it is in
\* self.data and in the file with its value.
C21_ThemeKept ==
    /\ app = "up"
    /\ last.op = "toggle_autostart"
    /\ last.raised = "none"
    /\ ~data.doc["widget_visible"]["pomodoro"]
    /\ ExtraKey \in DOMAIN data.doc
    /\ data.doc[ExtraKey] = "dark"
    /\ IsDocument(file)
    /\ ExtraKey \in DOMAIN file.value.doc
    /\ file.value.doc[ExtraKey] = "dark"

\* C22: remaining_seconds and sessions_completed are never below 0.
C22_SessionStateInvariant == remaining_seconds >= 0 /\ sessions_completed >= 0

\* C23: save_position, change_color, toggle_expand, hide_widget and show_widget of a
\* panel change the entry of that panel in their own map; the entries of the other
\* panels and every other key of the document stay as they were, in self.data and in
\* the file.
C23_SettersTouchOneEntry ==
    [][/\ \A w \in DraggedPanels, pos \in DropPoints :
              SavePosition(w, pos) => OnlyEntryChanged("widget_positions", w, pos)
       /\ \A w \in DraggedPanels, c \in ChosenColors :
              ChangeColor(w, c) => OnlyEntryChanged("widget_colors", w, c)
       /\ \A w \in ShownPanels, v \in BOOLEAN :
              SetVisible(w, v, "written") => OnlyEntryChanged("widget_visible", w, v)
       /\ ToggleExpand
          => OnlyEntryChanged("widget_sizes", "pomodoro",
                              IF is_expanded THEN "compact" ELSE "expanded")]_vars

\* C23 witness: the todo panel, which had no position, was dragged; the position of
\* the pomodoro panel and the colours are what the file had.
C23_TodoDragged ==
    /\ app = "up"
    /\ last.op = "save_position"
    /\ PanelPosition("todo") = [x |-> 0, y |-> 0]
    /\ PanelPosition("pomodoro") = [x |-> 40, y |-> 60]
    /\ PanelColor("todo") = "#FFFFFF"
    /\ ~PanelVisible("todo")
    /\ file = JsonText(data)

\* C24: a panel that has no entry in a map of the store is given the position
\* (100, 100), its own default colour, the compact size and is visible.
C24_RegistryDefaults ==
    (app \in {"loaded", "up"} /\ data.kind = "object")
    => \A name \in WidgetNames :
           /\ name \notin DOMAIN Get("widget_positions", EmptyDict)
              => PanelPosition(name) = [x |-> 100, y |-> 100]
           /\ name \notin DOMAIN Get("widget_colors", EmptyDict)
              => PanelColor(name) = default_data["widget_colors"][name]
           /\ name \notin DOMAIN Get("widget_sizes", EmptyDict)
              => PanelSize(name) = "compact"
           /\ name \notin DOMAIN Get("widget_visible", EmptyDict)
              => PanelVisible(name)

\* C25: in the file no date of calendar_events has an empty list, no date, week or
\* month of the plans has an empty dict, and no slot of a plan holds an empty text.
C25_EmptyEntriesPruned ==
    IsDocument(file) =>
        /\ \A c \in {"calendar_events", "day_plans", "weekly_plans", "monthly_plans"} :
               \A key \in DOMAIN file.value.doc[c] : DOMAIN file.value.doc[c][key] # {}
        /\ \A c \in {"day_plans", "weekly_plans", "monthly_plans"} :
               \A key \in DOMAIN file.value.doc[c] :
                   \A slot \in DOMAIN file.value.doc[c][key] :
                       file.value.doc[c][key][slot] # ""

\* C26: when run_timer goes into timer_complete, the timer has been running in this
\* period for no less than the configured length of the period, whatever Starts and
\* Pauses came before.
C26_NoEarlyCompletion ==
    [][(NaturalExpiry /\ clock.whole)
       => clock.elapsed >= PhaseSeconds(Phase, settings)]_vars

\* C27: under durations above 0, the total of sessions over the buckets of the stored
\* history grows by exactly 1 in a step that completes a focus period (a callback or
\* Start finding the countdown at 0, or Skip) and is the same after every other step;
\* a completion leaves the timer stopped with a countdown above 0, and a callback that
\* finds the timer stopped with a countdown above 0 changes nothing, so a callback
\* left over from the completed period completes nothing.
C27_OneRecordPerFocus ==
    [][/\ TotalSessions(StoredHistory') = TotalSessions(StoredHistory)
            + (IF (NaturalExpiry \/ SkipSession) /\ is_focus_time THEN 1 ELSE 0)
       /\ (NaturalExpiry \/ SkipSession) => ~timer_running' /\ remaining_seconds' > 0
       /\ (Tick /\ ~timer_running /\ remaining_seconds > 0)
          => UNCHANGED <<timer_running, is_focus_time, remaining_seconds,
                         sessions_completed, data, file>>]_vars

\* C27 witness: durations above 0 were saved, a focus period was completed and the
\* callbacks left over from it have fired: one session is stored and the break has
\* not begun to count.
C27_LeftoverTickFired ==
    /\ app = "up"
    /\ last = Ran("tick", "none", FALSE)
    /\ pending = <<>>
    /\ settings.focus_time = 2
    /\ ~timer_running
    /\ ~is_focus_time
    /\ sessions_completed = 1
    /\ remaining_seconds = PhaseSeconds("BREAK", settings)
    /\ TotalSessions(StoredHistory) = 1

\* C28: when save_data raises inside record_session while a focus period is completed,
\* the phase, the countdown and the counter are either all as timer_complete leaves
\* them when it returns, with the timer stopped, or all as they were before it.
C28_CompleteAllOrNothing ==
    [][(\E o \in SaveFailures : TickRaising(o) \/ SkipSessionRaising(o))
       => \/ UNCHANGED <<is_focus_time, remaining_seconds, sessions_completed>>
          \/ /\ ~timer_running'
             /\ is_focus_time' = CompleteOutcome.is_focus_time
             /\ remaining_seconds' = CompleteOutcome.remaining_seconds
             /\ sessions_completed' = CompleteOutcome.sessions_completed]_vars

\* C29: toggle_expand, which rebuilds the content of the panel, leaves the phase, the
\* countdown, the counter and timer_running as they were.
C29_RebuildKeepsSession ==
    [][ToggleExpand
       => UNCHANGED <<is_focus_time, remaining_seconds, sessions_completed,
                      timer_running>>]_vars

\* Start has just been pressed with the countdown above 0, in the given phase and with
\* n sessions recorded.
StartedIn(focus, n) ==
    /\ app = "up"
    /\ last = Ran("start", "none", FALSE)
    /\ timer_running
    /\ is_focus_time = focus
    /\ TotalSessions(History) = n

\* The user has acted since that Start: the last handler that ran was neither a Start
\* nor a callback, or it was a Start in another phase or with another history.
UserActed(focus, n) ==
    \/ last.op \notin {"start", "tick"}
    \/ last.op = "start" /\ (is_focus_time # focus \/ TotalSessions(History) # n)

\* The timer is stopped and no callback is scheduled.
AtRest == ~timer_running /\ pending = <<>>

\* C30: after Start is pressed with the countdown above 0, either the user acts again
\* or the timer comes to rest, stopped and with no callback scheduled, with the period
\* it was started in completed once: the phase is the next one, and one session more
\* is recorded if the period was a focus period.
C30_StartedCountdownFinishes ==
    /\ \A n \in 0..(MaxSessions - 1) :
           StartedIn(TRUE, n)
               ~> (UserActed(TRUE, n)
                   \/ (AtRest /\ ~is_focus_time /\ TotalSessions(History) = n + 1))
    /\ \A n \in 0..MaxSessions :
           StartedIn(FALSE, n)
               ~> (UserActed(FALSE, n)
                   \/ (AtRest /\ is_focus_time /\ TotalSessions(History) = n))

====
